---- MODULE Spec2Model ----
(***************************************************************************)
(* chai-tea: the Elm-style frame loop of src/src/lib.rs (ChaiTeaAppAsync,  *)
(* ChaiSender, run_async), instantiated with the timer application of      *)
(* src/examples/timer.rs (Model, Msg, Cmd, update, view, run_cmd); and the *)
(* non-async frame loop (ChaiTeaApp, run; the same code as App of          *)
(* src/src/main.rs) with the counter application of main.rs.               *)
(*                                                                         *)
(* Specifications: Spec and SpecFair (the timer on the async driver),      *)
(* SpecFault (the same with a reducer that may panic), SpecSender (the     *)
(* ChaiSender interface on its own), SpecApp (the counter on the non-async *)
(* driver), SpecAll (either application), SpecPair (both drivers fed the   *)
(* same view Messages).                                                    *)
(*                                                                         *)
(* One application instance is alive at a time (eframe::run_native blocks  *)
(* until its window closes); a later run_async in the same process builds  *)
(* the next instance.  The run-once latch ONCE is a static of the process. *)
(* Background threads spawned by run_cmd outlive the frame, and the        *)
(* instance, that dispatched them.                                         *)
(***************************************************************************)
EXTENDS Integers, Sequences, FiniteSets, TLC

\* ---------------------------------------------------------------- bounds
MaxApps == 2        \* run_async calls in the process
MaxFrames == 3      \* frames per instance
MaxCmds == 2        \* Start clicks (hence Commands) per instance
MaxQueue == 2       \* Messages pending in the channel
MaxSends == 2       \* Messages accepted by the channel per instance
MaxView == 2        \* Messages pushed by one call of the view

\* ------------------------------------------------------ program constants
DefaultTotalTime == 10

\* Texts the user may type into the time field, as character sequences.
TimeInputs == { <<"1">>, <<"x">> }

Digits == { "0", "1", "2", "3", "4", "5", "6", "7", "8", "9" }

DigitVal(c) ==
    CASE c = "0" -> 0 [] c = "1" -> 1 [] c = "2" -> 2 [] c = "3" -> 3
      [] c = "4" -> 4 [] c = "5" -> 5 [] c = "6" -> 6 [] c = "7" -> 7
      [] c = "8" -> 8 [] c = "9" -> 9

RECURSIVE ParseDigits(_, _)
ParseDigits(s, acc) ==
    IF s = << >> THEN acc
    ELSE ParseDigits(Tail(s), acc * 10 + DigitVal(Head(s)))

\* str::parse::<u64>: Ok(n) for a non-empty run of decimal digits, Err
\* otherwise (the texts drawn here are far too short to exceed 64 bits).
ParseU64(s) ==
    IF s # << >> /\ (\A i \in 1..Len(s) : s[i] \in Digits)
    THEN [ok |-> TRUE, val |-> ParseDigits(s, 0)]
    ELSE [ok |-> FALSE, val |-> 0]

VARIABLES
    inst,         \* which run_async call built the live instance
    alive,        \* the instance (and its msg_rx) exists
    ONCE,         \* static ONCE: std::sync::Once has completed
    model,        \* ChaiTeaAppAsync.model
    sync_state,   \* ChaiTeaAppAsync.sync_state
    messages,     \* ChaiTeaAppAsync.messages, the sink handed to view
    chai_tx,      \* ChaiTeaAppAsync.chai_tx: [ctx |-> Some/None]
    queue,        \* the mpsc channel between chai_tx clones and msg_rx
    repaint,      \* a repaint request is pending at the host
    pc,           \* position of the render thread inside update
    msgs,         \* local msgs of update
    cmds,         \* local cmds of update
    old,          \* local old: the Model moved out by mem::take
    frame,        \* number of the current (or last) frame of the instance
    threads,      \* threads spawned by run_cmd, in spawn order
    nsent,        \* Messages enqueued so far (history)
    ndrained,     \* Messages received by try_recv so far (history)
    nemit,        \* Commands returned by the reducer so far (history)
    nsetctx,      \* calls of set_ctx on the instance's chai_tx (history)
    pushed,       \* what the view appended in this frame (history)
    recvd,        \* what try_recv returned in this frame (history)
    reduced,      \* Messages reduced in this frame, in order (history)
    start_model,  \* the Model when this frame's reduce loop began (history)
    app           \* the non-async instance: ChaiTeaApp / main.rs App

vars == << inst, alive, ONCE, model, sync_state, messages, chai_tx, queue,
           repaint, pc, msgs, cmds, old, frame, threads, nsent, ndrained,
           nemit, nsetctx, pushed, recvd, reduced, start_model, app >>

\* ------------------------------------------------------------ timer.rs
\* impl Default for Model
DefaultModel ==
    [ total_time |-> DefaultTotalTime, time_elapsed |-> 0,
      time_input |-> <<"1", "0">>, state |-> "Stopped" ]

\* fn init() -> Model
InitModel == DefaultModel

\* fn sync_state_init() -> SyncState
SyncStateInit == [ timer_lock |-> FALSE ]

NoCmd == [ kind |-> "None", arg |-> 0 ]

\* The local old outside a reduction: it holds no Model.
Moved == [ moved |-> TRUE ]

\* The process runs no non-async instance.
NoApp == [ pc |-> "none" ]

\* fn update(model, msg) -> (Model, Option<Cmd>)
update(m, msg) ==
    CASE msg.kind = "NewTime" ->
           IF ParseU64(msg.arg).ok
           THEN [ model |-> [m EXCEPT !.total_time = ParseU64(msg.arg).val,
                                      !.time_input = msg.arg],
                  cmd |-> NoCmd ]
           ELSE [ model |-> m, cmd |-> NoCmd ]
      [] msg.kind = "Pause" ->
           [ model |-> [m EXCEPT !.state = "Paused"], cmd |-> NoCmd ]
      [] msg.kind = "Stop" ->
           [ model |-> [m EXCEPT !.time_elapsed = 0, !.state = "Stopped"],
             cmd |-> NoCmd ]
      [] msg.kind = "Start" ->
           [ model |-> [m EXCEPT !.state = "Running"],
             cmd |-> [ kind |-> "Start", arg |-> m.total_time ] ]
      [] msg.kind = "Tick" ->
           [ model |-> [m EXCEPT !.time_elapsed = msg.arg], cmd |-> NoCmd ]

\* A Message pushed by view: it was never in the channel.
ViewMsg(kind, arg) ==
    [ kind |-> kind, arg |-> arg, src |-> "view", id |-> 0, born |-> 0,
      woke |-> FALSE, cid |-> 0 ]

\* fn view: the Messages it constructs and pushes (tx.push(Msg::...)).
ViewMsgs ==
    { ViewMsg("NewTime", t) : t \in TimeInputs }
      \cup { ViewMsg("Pause", 0), ViewMsg("Start", 0), ViewMsg("Stop", 0) }

\* What one call of the view may append to the sink.  The Frame Driver hands
\* the view an opaque sink, so a call may push any sequence of the view's
\* Messages; sequences of at most MaxView are drawn.
ViewBatches ==
    UNION { [ 1..n -> ViewMsgs ] : n \in 0..MaxView }

NumStarts(b) == Cardinality({ i \in 1..Len(b) : b[i].kind = "Start" })

\* ------------------------------------------------------------- lib.rs
\* The reduce loop of update as a function of the Model it starts from and
\* the batch: for msg in msgs { (new_model, cmd) = update(old, msg); ... }.
RECURSIVE FrameReduce(_, _)
FrameReduce(m, batch) ==
    IF batch = << >> THEN [ model |-> m, cmds |-> << >> ]
    ELSE LET r == update(m, Head(batch))
             rest == FrameReduce(r.model, Tail(batch))
         IN [ model |-> rest.model,
              cmds |-> (IF r.cmd # NoCmd THEN << r.cmd >> ELSE << >>)
                          \o rest.cmds ]

\* run_async: the channel, ChaiSender::new (ctx: None) and the
\* ChaiTeaAppAsync built by the creation closure.  The host paints a new
\* window once without being asked.
NewInstance(n) ==
    /\ inst' = n
    /\ alive' = TRUE
    /\ model' = InitModel
    /\ sync_state' = SyncStateInit
    /\ messages' = << >>
    /\ chai_tx' = [ ctx |-> FALSE ]
    /\ queue' = << >>
    /\ repaint' = TRUE
    /\ pc' = "idle"
    /\ msgs' = << >>
    /\ cmds' = << >>
    /\ old' = Moved
    /\ frame' = 0
    /\ nsent' = 0
    /\ ndrained' = 0
    /\ nemit' = 0
    /\ nsetctx' = 0
    /\ pushed' = << >>
    /\ recvd' = << >>
    /\ reduced' = << >>
    /\ start_model' = Moved
    /\ app' = app

Init ==
    /\ inst = 1
    /\ alive = TRUE
    /\ ONCE = FALSE
    /\ model = InitModel
    /\ sync_state = SyncStateInit
    /\ messages = << >>
    /\ chai_tx = [ ctx |-> FALSE ]
    /\ queue = << >>
    /\ repaint = TRUE
    /\ pc = "idle"
    /\ msgs = << >>
    /\ cmds = << >>
    /\ old = Moved
    /\ frame = 0
    /\ threads = << >>
    /\ nsent = 0
    /\ ndrained = 0
    /\ nemit = 0
    /\ nsetctx = 0
    /\ pushed = << >>
    /\ recvd = << >>
    /\ reduced = << >>
    /\ start_model = Moved
    /\ app = NoApp

\* A later run_async in the same process, once the previous window closed.
\* The threads of the closed instance hold a Sender whose Receiver is gone
\* and the ctx of a closed window: nothing they do can reach the new
\* instance, and they leave the state.  (A process running the counter
\* application never calls run_async.)
RunAsync ==
    /\ app = NoApp
    /\ ~alive
    /\ inst < MaxApps
    /\ NewInstance(inst + 1)
    /\ threads' = << >>
    /\ UNCHANGED ONCE

\* The host closes the window between two frames: the instance and its
\* msg_rx are dropped, and with the receiver everything still queued.
Shutdown ==
    /\ alive
    /\ pc = "idle"
    /\ alive' = FALSE
    /\ queue' = << >>
    /\ repaint' = FALSE
    /\ UNCHANGED << app, inst, ONCE, model, sync_state, messages, chai_tx, pc,
                    msgs, cmds, old, frame, threads, nsent, ndrained,
                    nemit, nsetctx, pushed, recvd, reduced, start_model >>

\* An input event (pointer, key, resize) makes the host ask for a frame.
HostEvent ==
    /\ alive
    /\ ~repaint
    /\ repaint' = TRUE
    /\ UNCHANGED << app,
                    inst, alive, ONCE, model, sync_state, messages, chai_tx,
                    queue, pc, msgs, cmds, old, frame, threads, nsent,
                    ndrained, nemit, nsetctx, pushed, recvd, reduced, start_model >>

\* The host calls eframe::App::update for a pending repaint request.
BeginFrame ==
    /\ alive
    /\ pc = "idle"
    /\ repaint
    /\ frame < MaxFrames
    /\ repaint' = FALSE
    /\ frame' = frame + 1
    /\ pc' = "once"
    /\ UNCHANGED << app,
                    inst, alive, ONCE, model, sync_state, messages, chai_tx,
                    queue, msgs, cmds, old, threads, nsent, ndrained,
                    nemit, nsetctx, pushed, recvd, reduced, start_model >>

\* ChaiSender::set_ctx
set_ctx(tx) == [ tx EXCEPT !.ctx = TRUE ]

\* CallOnce without the latch: set_ctx in every frame.
CallOnceNoLatch ==
    /\ pc = "once"
    /\ chai_tx' = set_ctx(chai_tx)
    /\ nsetctx' = nsetctx + 1
    /\ ONCE' = TRUE
    /\ pc' = "view"
    /\ UNCHANGED << app,
                    inst, alive, model, sync_state, messages, queue, repaint,
                    msgs, cmds, old, frame, threads, nsent, ndrained, nemit,
                    pushed, recvd, reduced, start_model >>

\* ONCE.call_once(|| self.chai_tx.set_ctx(ctx))
CallOnce ==
    /\ pc = "once"
    /\ IF ONCE
       THEN UNCHANGED << chai_tx, nsetctx >>
       ELSE /\ chai_tx' = set_ctx(chai_tx)
            /\ nsetctx' = nsetctx + 1
    /\ ONCE' = TRUE
    /\ pc' = "view"
    /\ UNCHANGED << app,
                    inst, alive, model, sync_state, messages, queue, repaint,
                    msgs, cmds, old, frame, threads, nsent, ndrained, nemit,
                    pushed, recvd, reduced, start_model >>

\* (self.view)(ctx, &self.model, &mut self.messages)
\* The timer's view also asks for the next frame while the timer runs.
View ==
    /\ pc = "view"
    /\ \E b \in ViewBatches :
         /\ nemit + NumStarts(b) <= MaxCmds
         /\ messages' = messages \o b
         /\ pushed' = b
    /\ repaint' = (repaint \/ model.state = "Running")
    /\ pc' = "collect"
    /\ UNCHANGED << app, inst, alive, ONCE, model, sync_state, chai_tx, queue,
                    msgs, cmds, old, frame, threads, nsent, ndrained, nemit,
                    nsetctx, recvd, reduced, start_model >>

\* Collect that copies the sink into msgs and leaves the sink as it is.
CollectKeep ==
    /\ pc = "collect"
    /\ msgs' = messages
    /\ cmds' = << >>
    /\ pc' = "drain"
    /\ UNCHANGED << app, inst, alive, ONCE, model, sync_state, messages,
                    chai_tx, queue, repaint, old, frame, threads, nsent,
                    ndrained, nemit, nsetctx, pushed, recvd, reduced,
                    start_model >>

\* let mut msgs = self.messages.drain(..).collect(); let mut cmds = Vec::new()
Collect ==
    /\ pc = "collect"
    /\ msgs' = messages
    /\ messages' = << >>
    /\ cmds' = << >>
    /\ pc' = "drain"
    /\ UNCHANGED << app, inst, alive, ONCE, model, sync_state, chai_tx, queue,
                    repaint, old, frame, threads, nsent, ndrained, nemit,
                    nsetctx, pushed, recvd, reduced, start_model >>

\* TryRecv with each drained Message put in front of the batch.
TryRecvFront ==
    /\ pc = "drain"
    /\ IF queue # << >>
       THEN /\ msgs' = << Head(queue) >> \o msgs
            /\ queue' = Tail(queue)
            /\ ndrained' = ndrained + 1
            /\ recvd' = Append(recvd, Head(queue))
            /\ pc' = "drain"
            /\ UNCHANGED start_model
       ELSE /\ pc' = "reduce"
            /\ start_model' = model
            /\ UNCHANGED << msgs, queue, ndrained, recvd >>
    /\ UNCHANGED << app,
                    inst, alive, ONCE, model, sync_state, messages, chai_tx,
                    repaint, cmds, old, frame, threads, nsent, nemit,
                    nsetctx, pushed, reduced >>

\* TryRecv taking the newest queued Message instead of the oldest.
TryRecvNewest ==
    /\ pc = "drain"
    /\ IF queue # << >>
       THEN /\ msgs' = Append(msgs, queue[Len(queue)])
            /\ queue' = SubSeq(queue, 1, Len(queue) - 1)
            /\ ndrained' = ndrained + 1
            /\ recvd' = Append(recvd, queue[Len(queue)])
            /\ pc' = "drain"
            /\ UNCHANGED start_model
       ELSE /\ pc' = "reduce"
            /\ start_model' = model
            /\ UNCHANGED << msgs, queue, ndrained, recvd >>
    /\ UNCHANGED << app,
                    inst, alive, ONCE, model, sync_state, messages, chai_tx,
                    repaint, cmds, old, frame, threads, nsent, nemit,
                    nsetctx, pushed, reduced >>

\* TryRecv with the blocking recv: an empty channel makes the loop wait.
RecvBlocking ==
    /\ pc = "drain"
    /\ queue # << >>
    /\ msgs' = Append(msgs, Head(queue))
    /\ queue' = Tail(queue)
    /\ ndrained' = ndrained + 1
    /\ recvd' = Append(recvd, Head(queue))
    /\ pc' = "drain"
    /\ UNCHANGED << app,
                    inst, alive, ONCE, model, sync_state, messages, chai_tx,
                    repaint, cmds, old, frame, threads, nsent, nemit,
                    nsetctx, pushed, reduced, start_model >>

\* while let Ok(msg) = self.msg_rx.try_recv() { msgs.push(msg) }
\* One iteration: the oldest queued Message, or Err(Empty) and the loop ends.
TryRecv ==
    /\ pc = "drain"
    /\ IF queue # << >>
       THEN /\ msgs' = Append(msgs, Head(queue))
            /\ queue' = Tail(queue)
            /\ ndrained' = ndrained + 1
            /\ recvd' = Append(recvd, Head(queue))
            /\ pc' = "drain"
            /\ UNCHANGED start_model
       ELSE /\ pc' = "reduce"
            /\ start_model' = model
            /\ UNCHANGED << msgs, queue, ndrained, recvd >>
    /\ UNCHANGED << app,
                    inst, alive, ONCE, model, sync_state, messages, chai_tx,
                    repaint, cmds, old, frame, threads, nsent, nemit,
                    nsetctx, pushed, reduced >>

\* ReduceTake that moves the Model out before it looks at the batch.
ReduceTakeAlways ==
    /\ pc = "reduce"
    /\ old' = IF msgs # << >> THEN model ELSE Moved
    /\ model' = DefaultModel
    /\ pc' = IF msgs # << >> THEN "update" ELSE "dispatch"
    /\ UNCHANGED << app, inst, alive, ONCE, sync_state, messages, chai_tx,
                    queue, repaint, msgs, cmds, frame, threads, nsent,
                    ndrained, nemit, nsetctx, pushed, recvd, reduced,
                    start_model >>

\* ReduceTake that leaves the loop for the dispatch loop as soon as a
\* Command is waiting.
ReduceTakeDispatchFirst ==
    /\ pc = "reduce"
    /\ IF msgs # << >> /\ cmds = << >>
       THEN /\ old' = model
            /\ model' = DefaultModel
            /\ pc' = "update"
       ELSE /\ pc' = "dispatch"
            /\ UNCHANGED << old, model >>
    /\ UNCHANGED << app, inst, alive, ONCE, sync_state, messages, chai_tx,
                    queue, repaint, msgs, cmds, frame, threads, nsent,
                    ndrained, nemit, nsetctx, pushed, recvd, reduced,
                    start_model >>

\* for msg in msgs { let old = std::mem::take(&mut self.model); ...
\* The loop head: the next Message, whose reduction starts by moving the
\* Model out and leaving Model::default() in the slot; or the loop's end.
ReduceTake ==
    /\ pc = "reduce"
    /\ IF msgs # << >>
       THEN /\ old' = model
            /\ model' = DefaultModel
            /\ pc' = "update"
       ELSE /\ pc' = "dispatch"
            /\ UNCHANGED << old, model >>
    /\ UNCHANGED << app,
                    inst, alive, ONCE, sync_state, messages, chai_tx, queue,
                    repaint, msgs, cmds, frame, threads, nsent, ndrained,
                    nemit, nsetctx, pushed, recvd, reduced, start_model >>

\* ReduceApply reducing what mem::take left in the slot, not the Model taken.
ReduceApplyStale ==
    /\ pc = "update"
    /\ LET r == update(model, Head(msgs)) IN
         /\ model' = r.model
         /\ IF r.cmd # NoCmd
            THEN /\ cmds' = Append(cmds, [ kind |-> r.cmd.kind,
                                           arg |-> r.cmd.arg,
                                           cid |-> nemit + 1,
                                           emitted |-> frame ])
                 /\ nemit' = nemit + 1
            ELSE UNCHANGED << cmds, nemit >>
    /\ reduced' = Append(reduced, Head(msgs))
    /\ msgs' = Tail(msgs)
    /\ old' = Moved
    /\ pc' = "reduce"
    /\ UNCHANGED << app,
                    inst, alive, ONCE, sync_state, messages, chai_tx, queue,
                    repaint, frame, threads, nsent, ndrained, nsetctx,
                    pushed, recvd, start_model >>

\* ... let (new_model, cmd) = (self.update)(old, msg);
\*     self.model = new_model; if let Some(cmd) = cmd { cmds.push(cmd) } }
ReduceApply ==
    /\ pc = "update"
    /\ LET r == update(old, Head(msgs)) IN
         /\ model' = r.model
         /\ IF r.cmd # NoCmd
            THEN /\ cmds' = Append(cmds, [ kind |-> r.cmd.kind,
                                           arg |-> r.cmd.arg,
                                           cid |-> nemit + 1,
                                           emitted |-> frame ])
                 /\ nemit' = nemit + 1
            ELSE UNCHANGED << cmds, nemit >>
    /\ reduced' = Append(reduced, Head(msgs))
    /\ msgs' = Tail(msgs)
    /\ old' = Moved
    /\ pc' = "reduce"
    /\ UNCHANGED << app,
                    inst, alive, ONCE, sync_state, messages, chai_tx, queue,
                    repaint, frame, threads, nsent, ndrained, nsetctx,
                    pushed, recvd, start_model >>

\* impl Clone for ChaiSender: the clone carries the ctx the original has now.
clone(tx) == [ ctx |-> tx.ctx ]

\* run_cmd (timer.rs): Cmd::Start(total_time) spawns a thread that owns tx;
\* every other Command does nothing.  sync_state is not touched.
run_cmd(cmd, tx) ==
    IF cmd.kind = "Start"
    THEN << [ app |-> inst, cid |-> cmd.cid, emitted |-> cmd.emitted,
              born |-> frame, wake |-> tx.ctx, total |-> cmd.arg,
              tick |-> 0, pc |-> "loop", last |-> "none" ] >>
    ELSE << >>

\* Dispatch taking the Commands newest first.
DispatchReverse ==
    /\ pc = "dispatch"
    /\ IF cmds # << >>
       THEN /\ threads' = threads \o run_cmd(cmds[Len(cmds)], clone(chai_tx))
            /\ cmds' = SubSeq(cmds, 1, Len(cmds) - 1)
            /\ pc' = "dispatch"
            /\ UNCHANGED << pushed, recvd, reduced, start_model >>
       ELSE /\ pc' = "idle"
            /\ pushed' = << >>
            /\ recvd' = << >>
            /\ reduced' = << >>
            /\ start_model' = Moved
            /\ UNCHANGED << threads, cmds >>
    /\ UNCHANGED << app,
                    inst, alive, ONCE, model, sync_state, messages, chai_tx,
                    queue, repaint, msgs, old, frame, nsent, ndrained, nemit,
                    nsetctx >>

\* Dispatch that goes back to draining when Messages arrived meanwhile.
DispatchRedrain ==
    /\ pc = "dispatch"
    /\ IF cmds # << >>
       THEN /\ threads' = threads \o run_cmd(Head(cmds), clone(chai_tx))
            /\ cmds' = Tail(cmds)
            /\ pc' = "dispatch"
            /\ UNCHANGED << pushed, recvd, reduced, start_model >>
       ELSE /\ pc' = IF queue # << >> THEN "drain" ELSE "idle"
            /\ pushed' = << >>
            /\ recvd' = << >>
            /\ reduced' = << >>
            /\ start_model' = Moved
            /\ UNCHANGED << threads, cmds >>
    /\ UNCHANGED << app,
                    inst, alive, ONCE, model, sync_state, messages, chai_tx,
                    queue, repaint, msgs, old, frame, nsent, ndrained, nemit,
                    nsetctx >>

\* Dispatch handing every Command of the frame to run_cmd at the same time.
RECURSIVE RunAll(_, _)
RunAll(q, tx) ==
    IF q = << >> THEN << >> ELSE run_cmd(Head(q), tx) \o RunAll(Tail(q), tx)

DispatchAtOnce ==
    /\ pc = "dispatch"
    /\ IF cmds # << >>
       THEN /\ threads' = threads \o RunAll(cmds, clone(chai_tx))
            /\ cmds' = << >>
            /\ pc' = "dispatch"
            /\ UNCHANGED << pushed, recvd, reduced, start_model >>
       ELSE /\ pc' = "idle"
            /\ pushed' = << >>
            /\ recvd' = << >>
            /\ reduced' = << >>
            /\ start_model' = Moved
            /\ UNCHANGED << threads, cmds >>
    /\ UNCHANGED << app, inst, alive, ONCE, model, sync_state, messages,
                    chai_tx, queue, repaint, msgs, old, frame, nsent,
                    ndrained, nemit, nsetctx >>

\* for cmd in cmds { let tx = ChaiSender::clone(&self.chai_tx);
\*                   (self.run_cmd)(cmd, &mut self.sync_state, tx) }
\* One iteration, or the end of the loop and of update.
Dispatch ==
    /\ pc = "dispatch"
    /\ IF cmds # << >>
       THEN /\ threads' = threads \o run_cmd(Head(cmds), clone(chai_tx))
            /\ cmds' = Tail(cmds)
            /\ pc' = "dispatch"
            /\ UNCHANGED << pushed, recvd, reduced, start_model >>
       ELSE /\ pc' = "idle"
            /\ pushed' = << >>
            /\ recvd' = << >>
            /\ reduced' = << >>
            /\ start_model' = Moved
            /\ UNCHANGED << threads, cmds >>
    /\ UNCHANGED << app,
                    inst, alive, ONCE, model, sync_state, messages, chai_tx,
                    queue, repaint, msgs, old, frame, nsent, ndrained, nemit,
                    nsetctx >>

\* The receiver a thread's Sender is connected to still exists.
Connected(th) == alive /\ th.app = inst

\* A send that asks for the repaint whether or not the handle has a ctx.
SendWakeNoCtx(th) == repaint \/ Connected(th)

\* ChaiSender::send, first half:
\*   if let Some(ctx) = &self.ctx { ctx.request_repaint() }
\* The value of the host's pending-repaint flag afterwards.
SendWake(th) == repaint \/ (th.wake /\ Connected(th))

\* A channel send that never fails.
SendAlways(th) == TRUE

\* ChaiSender::send, second half: self.tx.send(msg).  Ok appends msg to the
\* channel; Err(SendError) hands the Message back and queues nothing.
SendOk(th) == Connected(th)

\* A channel that hands out the newest accepted Message first.
EnqueuedFront(th, kind, arg) ==
    << [ kind |-> kind, arg |-> arg, src |-> "cmd", id |-> nsent + 1,
         born |-> th.born, woke |-> th.wake, cid |-> th.cid ] >> \o queue

\* The channel after an accepted send.  Beside the Message (kind, arg) the
\* entry records where it comes from: its place in the order of accepted
\* sends, the frame that dispatched its Command, whether the sending
\* handle had a ctx to wake, and the Command whose thread sent it.
Enqueued(th, kind, arg) ==
    Append(queue, [ kind |-> kind, arg |-> arg, src |-> "cmd",
                    id |-> nsent + 1, born |-> th.born, woke |-> th.wake,
                    cid |-> th.cid ])

\* loop { tick += 1; sleep; tx.send(Msg::Tick(tick)) ... : up to the wake-up
\* request inside send.
ThreadTick(i) ==
    /\ threads[i].pc = "loop"
    /\ repaint' = SendWake(threads[i])
    /\ threads' = [ threads EXCEPT ![i].tick = @ + 1, ![i].pc = "enq_tick" ]
    /\ UNCHANGED << app,
                    inst, alive, ONCE, model, sync_state, messages, chai_tx,
                    queue, pc, msgs, cmds, old, frame, nsent, ndrained,
                    nemit, nsetctx, pushed, recvd, reduced, start_model >>

\* if tx.send(Msg::Tick(tick)).is_err() { return }
\* if tick >= total_time { ... } : the channel send and what follows it.
ThreadEnqTick(i) ==
    /\ threads[i].pc = "enq_tick"
    /\ IF SendOk(threads[i])
       THEN /\ Len(queue) < MaxQueue
            /\ nsent < MaxSends
            /\ queue' = Enqueued(threads[i], "Tick", threads[i].tick)
            /\ nsent' = nsent + 1
            /\ threads' = [ threads EXCEPT
                 ![i].last = "ok",
                 ![i].pc = IF threads[i].tick >= threads[i].total
                           THEN "stop" ELSE "loop" ]
       ELSE /\ threads' = [ threads EXCEPT ![i].last = "closed",
                                           ![i].pc = "returned" ]
            /\ UNCHANGED << queue, nsent >>
    /\ UNCHANGED << app,
                    inst, alive, ONCE, model, sync_state, messages, chai_tx,
                    repaint, pc, msgs, cmds, old, frame, ndrained, nemit,
                    nsetctx, pushed, recvd, reduced, start_model >>

\* tx.send(Msg::Stop): the wake-up request inside send.
ThreadStop(i) ==
    /\ threads[i].pc = "stop"
    /\ repaint' = SendWake(threads[i])
    /\ threads' = [ threads EXCEPT ![i].pc = "enq_stop" ]
    /\ UNCHANGED << app,
                    inst, alive, ONCE, model, sync_state, messages, chai_tx,
                    queue, pc, msgs, cmds, old, frame, nsent, ndrained,
                    nemit, nsetctx, pushed, recvd, reduced, start_model >>

\* if tx.send(Msg::Stop).is_err() { return } break
ThreadEnqStop(i) ==
    /\ threads[i].pc = "enq_stop"
    /\ IF SendOk(threads[i])
       THEN /\ Len(queue) < MaxQueue
            /\ nsent < MaxSends
            /\ queue' = Enqueued(threads[i], "Stop", 0)
            /\ nsent' = nsent + 1
            /\ threads' = [ threads EXCEPT ![i].last = "ok",
                                           ![i].pc = "done" ]
       ELSE /\ threads' = [ threads EXCEPT ![i].last = "closed",
                                           ![i].pc = "returned" ]
            /\ UNCHANGED << queue, nsent >>
    /\ UNCHANGED << app,
                    inst, alive, ONCE, model, sync_state, messages, chai_tx,
                    repaint, pc, msgs, cmds, old, frame, ndrained, nemit,
                    nsetctx, pushed, recvd, reduced, start_model >>

\* The render thread's next step inside update.
FrameStep ==
    \/ CallOnce
    \/ View
    \/ Collect
    \/ TryRecv
    \/ ReduceTake
    \/ ReduceApply
    \/ Dispatch

ThreadStep ==
    \E i \in 1..Len(threads) :
        \/ ThreadTick(i)
        \/ ThreadEnqTick(i)
        \/ ThreadStop(i)
        \/ ThreadEnqStop(i)

Next ==
    \/ BeginFrame
    \/ FrameStep
    \/ ThreadStep
    \/ HostEvent
    \/ Shutdown
    \/ RunAsync

Spec == Init /\ [][Next]_vars

\* The render thread is never preempted for good: the call of update the
\* host has made keeps running.  Nothing is assumed of the threads.
SpecFair == Spec /\ WF_vars(FrameStep)

\* ------------------------------------------------- a faulting reducer
\* The Frame Driver takes any Fn(M, Msg) -> (M, Option<Cmd>).  The timer's
\* update never panics; a reducer that may panic on any Message is the
\* timer's with a panic possible in place of its result.

\* ReducePanic whose unwinding still hands the collected cmds to run_cmd.
ReducePanicDispatch ==
    /\ pc = "update"
    /\ pc' = "panicked"
    /\ threads' = threads \o RunAll(cmds, clone(chai_tx))
    /\ msgs' = << >>
    /\ cmds' = << >>
    /\ old' = Moved
    /\ UNCHANGED << app, inst, alive, ONCE, model, sync_state, messages,
                    chai_tx, queue, repaint, frame, nsent, ndrained,
                    nemit, nsetctx, pushed, recvd, reduced, start_model >>

\* (self.update)(old, msg) panics: the panic unwinds update, dropping msg,
\* old, the rest of msgs and cmds, and leaves it for eframe; nothing in
\* update catches it.  self.model keeps what mem::take wrote.
ReducePanic ==
    /\ pc = "update"
    /\ pc' = "panicked"
    /\ msgs' = << >>
    /\ cmds' = << >>
    /\ old' = Moved
    /\ UNCHANGED << app, inst, alive, ONCE, model, sync_state, messages,
                    chai_tx, queue, repaint, frame, threads, nsent,
                    ndrained, nemit, nsetctx, pushed, recvd, reduced,
                    start_model >>

NextFault ==
    \/ Next
    \/ ReducePanic

SpecFault == Init /\ [][NextFault]_vars

\* ------------------------------------------------ lib.rs: ChaiSender
\* The handle's interface on its own: an instance whose handle gets the
\* ctx at some point, clones of the handle taken before and after, and
\* holders that call send or send_repaintless on their clone at any time,
\* before and after the receiver is dropped.  A holder is kept like a
\* thread of run_cmd: the instance it belongs to, what its clone carries,
\* and the result of its last call.
SentMsgs == { << "Tick", 1 >>, << "Stop", 0 >> }

\* self.chai_tx.set_ctx(ctx)
SenderSetCtx ==
    /\ alive
    /\ ~chai_tx.ctx
    /\ chai_tx' = set_ctx(chai_tx)
    /\ UNCHANGED << app, inst, alive, ONCE, model, sync_state, messages,
                    queue, repaint, pc, msgs, cmds, old, frame, threads,
                    nsent, ndrained, nemit, nsetctx, pushed, recvd, reduced,
                    start_model >>

\* ChaiSender::clone(&self.chai_tx), the clone given away.
SenderClone ==
    /\ alive
    /\ Len(threads) < MaxCmds
    /\ threads' = Append(threads,
         [ app |-> inst, cid |-> Len(threads) + 1, emitted |-> 0,
           born |-> 0, wake |-> clone(chai_tx).ctx, total |-> 0,
           tick |-> 0, pc |-> "hold", last |-> "none" ])
    /\ UNCHANGED << app, inst, alive, ONCE, model, sync_state, messages,
                    chai_tx, queue, repaint, pc, msgs, cmds, old, frame,
                    nsent, ndrained, nemit, nsetctx, pushed, recvd, reduced,
                    start_model >>

\* The channel half of both send functions: self.tx.send(msg).
SenderTxSend(i, m) ==
    IF SendOk(threads[i])
    THEN /\ Len(queue) < MaxQueue
         /\ nsent < MaxSends
         /\ queue' = Enqueued(threads[i], m[1], m[2])
         /\ nsent' = nsent + 1
         /\ threads' = [ threads EXCEPT ![i].last = "ok" ]
    ELSE /\ threads' = [ threads EXCEPT ![i].last = "closed" ]
         /\ UNCHANGED << queue, nsent >>

\* pub fn send(&self, msg): request_repaint if there is a ctx, then tx.send
SenderSend(i) ==
    /\ repaint' = SendWake(threads[i])
    /\ \E m \in SentMsgs : SenderTxSend(i, m)
    /\ UNCHANGED << app, inst, alive, ONCE, model, sync_state, messages,
                    chai_tx, pc, msgs, cmds, old, frame, ndrained, nemit,
                    nsetctx, pushed, recvd, reduced, start_model >>

\* pub fn send_repaintless(&self, msg): tx.send only
SenderSendRepaintless(i) ==
    /\ \E m \in SentMsgs : SenderTxSend(i, m)
    /\ UNCHANGED << app, inst, alive, ONCE, model, sync_state, messages,
                    chai_tx, repaint, pc, msgs, cmds, old, frame, ndrained,
                    nemit, nsetctx, pushed, recvd, reduced, start_model >>

\* The host runs the frame a pending request asked for; its try_recv loop
\* empties the channel.
SenderFrame ==
    /\ alive
    /\ repaint
    /\ repaint' = FALSE
    /\ ndrained' = ndrained + Len(queue)
    /\ queue' = << >>
    /\ UNCHANGED << app, inst, alive, ONCE, model, sync_state, messages,
                    chai_tx, pc, msgs, cmds, old, frame, threads, nsent,
                    nemit, nsetctx, pushed, recvd, reduced, start_model >>

SenderNext ==
    \/ SenderSetCtx
    \/ SenderClone
    \/ \E i \in 1..Len(threads) : SenderSend(i)
    \/ \E i \in 1..Len(threads) : SenderSendRepaintless(i)
    \/ SenderFrame
    \/ Shutdown

\* The instance as run_async built it, its first frame painted.
InitSender ==
    /\ inst = 1
    /\ alive = TRUE
    /\ ONCE = FALSE
    /\ model = InitModel
    /\ sync_state = SyncStateInit
    /\ messages = << >>
    /\ chai_tx = [ ctx |-> FALSE ]
    /\ queue = << >>
    /\ repaint = FALSE
    /\ pc = "idle"
    /\ msgs = << >>
    /\ cmds = << >>
    /\ old = Moved
    /\ frame = 0
    /\ threads = << >>
    /\ nsent = 0
    /\ ndrained = 0
    /\ nemit = 0
    /\ nsetctx = 0
    /\ pushed = << >>
    /\ recvd = << >>
    /\ reduced = << >>
    /\ start_model = Moved
    /\ app = NoApp

SpecSender == InitSender /\ [][SenderNext]_vars

\* ------------------------------------------------------------- main.rs
\* The counter application and, with it, the non-async Frame Driver:
\* App::update of main.rs is ChaiTeaApp::update of lib.rs word for word.
MaxI32 == 2147483647
MinI32 == -MaxI32 - 1
SetValue == 10

\* model.counter + 1 and model.counter - 1 on an i32, as a release build
\* computes them (two's complement wrap-around; a debug build panics where
\* these wrap).
Inc32(x) == IF x = MaxI32 THEN MinI32 ELSE x + 1
Dec32(x) == IF x = MinI32 THEN MaxI32 ELSE x - 1

\* Model::init() and impl Default for Model
MainInit == [ counter |-> 0, label |-> "" ]

\* Texts the user may leave in the label field.
Labels == { "a" }

MainMsg(kind, x, string) == [ kind |-> kind, x |-> x, string |-> string ]

\* fn view (main.rs): the Messages it constructs and pushes.
MainMsgs ==
    { MainMsg("Increment", 0, ""), MainMsg("Decrement", 0, ""),
      MainMsg("Set", SetValue, "") }
      \cup { MainMsg("NewLabel", 0, l) : l \in Labels }

\* fn update(model, msg) -> Model (main.rs)
main_update(m, msg) ==
    CASE msg.kind = "Increment" -> [ m EXCEPT !.counter = Inc32(m.counter) ]
      [] msg.kind = "Decrement" -> [ m EXCEPT !.counter = Dec32(m.counter) ]
      [] msg.kind = "Set" -> [ m EXCEPT !.counter = msg.x ]
      [] msg.kind = "NewLabel" -> [ m EXCEPT !.label = msg.string ]

\* ------------------------------------------------ lib.rs: ChaiTeaApp
\* The non-async instance is one record: the fields model and messages,
\* the locals msgs and old of update, the render thread's position pc, the
\* frame number, and as history what the view pushed and what was reduced
\* in this frame, the Model the frame's loop began with, and every Message
\* reduced so far (stream).  prog names the application plugged in:
\* "counter" is main.rs; "timer" is timer.rs with the commandless reducer
\* signature Fn(M, Msg) -> M (the Model half of its update) and a view
\* that never pushes Start.
AppInit(prog) == IF prog = "counter" THEN MainInit ELSE InitModel

AppDefault(prog) == IF prog = "counter" THEN MainInit ELSE DefaultModel

AppUpdate(prog, m, msg) ==
    IF prog = "counter" THEN main_update(m, msg) ELSE update(m, msg).model

\* What one call of the view may append to the sink (at most MaxView).
AppViewBatches(prog) ==
    IF prog = "counter"
    THEN UNION { [ 1..n -> MainMsgs ] : n \in 0..MaxView }
    ELSE { b \in ViewBatches : NumStarts(b) = 0 }

\* run: ChaiTeaApp { model: init(), messages: Vec::new(), update, view }
NewApp(prog) ==
    [ prog |-> prog, model |-> AppInit(prog), messages |-> << >>,
      msgs |-> << >>, old |-> Moved, pc |-> "idle", frame |-> 0,
      pushed |-> << >>, reduced |-> << >>, start_model |-> Moved,
      stream |-> << >> ]

asyncvars == << inst, alive, ONCE, model, sync_state, messages, chai_tx,
                queue, repaint, pc, msgs, cmds, old, frame, threads, nsent,
                ndrained, nemit, nsetctx, pushed, recvd, reduced,
                start_model >>

\* A process that runs the counter application and no async instance.
InitApp ==
    /\ inst = 0
    /\ alive = FALSE
    /\ ONCE = FALSE
    /\ model = InitModel
    /\ sync_state = SyncStateInit
    /\ messages = << >>
    /\ chai_tx = [ ctx |-> FALSE ]
    /\ queue = << >>
    /\ repaint = FALSE
    /\ pc = "idle"
    /\ msgs = << >>
    /\ cmds = << >>
    /\ old = Moved
    /\ frame = 0
    /\ threads = << >>
    /\ nsent = 0
    /\ ndrained = 0
    /\ nemit = 0
    /\ nsetctx = 0
    /\ pushed = << >>
    /\ recvd = << >>
    /\ reduced = << >>
    /\ start_model = Moved
    /\ app = NewApp("counter")

\* The host calls eframe::App::update.
AppBeginFrame ==
    /\ app.pc = "idle"
    /\ app.frame < MaxFrames
    /\ app' = [ app EXCEPT !.frame = @ + 1, !.pc = "view" ]
    /\ UNCHANGED asyncvars

\* (self.view)(ctx, &self.model, &mut self.messages)
AppView ==
    /\ app.pc = "view"
    /\ \E b \in AppViewBatches(app.prog) :
         app' = [ app EXCEPT !.messages = @ \o b, !.pushed = b,
                             !.pc = "collect" ]
    /\ UNCHANGED asyncvars

\* AppCollect taking the sink's Messages newest first.
AppCollectReversed ==
    /\ app.pc = "collect"
    /\ app' = [ app EXCEPT
         !.msgs = [ i \in 1..Len(app.messages) |->
                      app.messages[Len(app.messages) + 1 - i] ],
         !.messages = << >>,
         !.start_model = app.model,
         !.pc = "reduce" ]
    /\ UNCHANGED asyncvars

\* let msgs: Vec<_> = self.messages.drain(..).collect()
AppCollect ==
    /\ app.pc = "collect"
    /\ app' = [ app EXCEPT !.msgs = app.messages, !.messages = << >>,
                           !.start_model = app.model, !.pc = "reduce" ]
    /\ UNCHANGED asyncvars

\* for msg in msgs { let old = std::mem::take(&mut self.model); ...
\* The loop head; at the loop's end update returns.
AppReduceTake ==
    /\ app.pc = "reduce"
    /\ IF app.msgs # << >>
       THEN app' = [ app EXCEPT !.old = app.model,
                                !.model = AppDefault(app.prog),
                                !.pc = "update" ]
       ELSE app' = [ app EXCEPT !.pushed = << >>, !.reduced = << >>,
                                !.start_model = Moved, !.pc = "idle" ]
    /\ UNCHANGED asyncvars

\* AppReduceApply reducing what mem::take left in the slot.
AppReduceApplyStale ==
    /\ app.pc = "update"
    /\ app' = [ app EXCEPT
         !.model = AppUpdate(app.prog, app.model, Head(app.msgs)),
         !.reduced = Append(@, Head(app.msgs)),
         !.stream = Append(@, Head(app.msgs)),
         !.msgs = Tail(@),
         !.old = Moved,
         !.pc = "reduce" ]
    /\ UNCHANGED asyncvars

\* ... self.model = (self.update)(old, msg); }
AppReduceApply ==
    /\ app.pc = "update"
    /\ app' = [ app EXCEPT
         !.model = AppUpdate(app.prog, app.old, Head(app.msgs)),
         !.reduced = Append(@, Head(app.msgs)),
         !.stream = Append(@, Head(app.msgs)),
         !.msgs = Tail(@),
         !.old = Moved,
         !.pc = "reduce" ]
    /\ UNCHANGED asyncvars

AppStep ==
    \/ AppView
    \/ AppCollect
    \/ AppReduceTake
    \/ AppReduceApply

AppNext ==
    \/ AppBeginFrame
    \/ AppStep

SpecApp == InitApp /\ [][AppNext]_vars

\* ------------------------------------------------- either Frame Driver
\* A process runs one application: the timer on the async Frame Driver or
\* the counter on the non-async one.
InitAll == Init \/ InitApp

NextAll ==
    \/ Next
    \/ AppNext

SpecAll == InitAll /\ [][NextAll]_vars

\* ------------------------------------------- the two drivers side by side
\* The timer on the async Frame Driver and, with the same init, the same
\* reducer (its Model half) and the same view Messages in every frame, on
\* the non-async Frame Driver.  The view pushes no Start, so the reducer
\* emits no Command, no thread exists and the channel stays empty.  In
\* each frame the non-async driver is called first; the async driver's view
\* call pushes the batch the other view pushed; neither starts the next
\* frame before both have finished this one.
InitPair ==
    /\ inst = 1
    /\ alive = TRUE
    /\ ONCE = FALSE
    /\ model = InitModel
    /\ sync_state = SyncStateInit
    /\ messages = << >>
    /\ chai_tx = [ ctx |-> FALSE ]
    /\ queue = << >>
    /\ repaint = TRUE
    /\ pc = "idle"
    /\ msgs = << >>
    /\ cmds = << >>
    /\ old = Moved
    /\ frame = 0
    /\ threads = << >>
    /\ nsent = 0
    /\ ndrained = 0
    /\ nemit = 0
    /\ nsetctx = 0
    /\ pushed = << >>
    /\ recvd = << >>
    /\ reduced = << >>
    /\ start_model = Moved
    /\ app = NewApp("timer")

PairAppBeginFrame ==
    /\ pc = "idle"
    /\ app.frame = frame
    /\ AppBeginFrame

PairAppStep ==
    /\ AppStep
    /\ app'.pc = "idle" => (frame = app.frame /\ pc \notin { "once", "view" })

PairBeginFrame ==
    /\ frame < app.frame
    /\ BeginFrame

PairView ==
    /\ app.pc \notin { "idle", "view" }
    /\ View
    /\ pushed' = app.pushed

PairNext ==
    \/ PairAppBeginFrame
    \/ PairAppStep
    \/ PairBeginFrame
    \/ HostEvent
    \/ CallOnce
    \/ PairView
    \/ Collect
    \/ TryRecv
    \/ ReduceTake
    \/ ReduceApply
    \/ Dispatch

SpecPair == InitPair /\ [][PairNext]_vars

\* ---------------------------------------------------------------- claims
InFrame == pc # "idle"

ViewPart(q) == SelectSeq(q, LAMBDA m : m.src = "view")
MailPart(q) == SelectSeq(q, LAMBDA m : m.src = "cmd")

IsPrefix(p, q) == Len(p) <= Len(q) /\ SubSeq(q, 1, Len(p)) = p

\* C1: in every frame the Messages the view appended are reduced first, in
\* append order, and only then the Messages drained from the channel: at any
\* point of the frame what has been reduced is a prefix of batch A followed
\* by batch B, so no drained Message is reduced while a view Message waits.
C1_ViewBeforeMailbox ==
    /\ IsPrefix(reduced, pushed \o recvd)
    /\ IsPrefix(ViewPart(reduced), pushed)
    /\ MailPart(reduced) # << >> => ViewPart(reduced) = pushed
    /\ pc = "dispatch" => reduced = pushed \o recvd

\* A frame that reduced a view Message and then a drained one.
C1_Witness ==
    /\ pc = "dispatch"
    /\ Len(pushed) >= 2
    /\ recvd # << >>
    /\ reduced = pushed \o recvd

\* C2: the channel hands every accepted Message to exactly one try_recv, in
\* the order the sends were accepted: the n-th successful try_recv of the
\* instance returns the n-th accepted Message, what is still queued are the
\* accepted Messages not yet returned, oldest first, and a frame's drain
\* loop ends only when it has returned everything queued.
C2_ExactlyOnceFifo ==
    /\ [](/\ \A i \in 1..Len(recvd) : recvd[i].id = ndrained - Len(recvd) + i
          /\ alive =>
               /\ Len(queue) = nsent - ndrained
               /\ \A i \in 1..Len(queue) : queue[i].id = ndrained + i)
    /\ [][(pc = "drain" /\ pc' = "reduce") =>
            (queue = << >> /\ ndrained = nsent)]_vars

\* A later drain returns the second accepted Message, the first having
\* been returned by the drain of an earlier frame, with two threads sending.
C2_Witness ==
    /\ pc = "reduce"
    /\ Len(recvd) = 1
    /\ recvd[1].id = 2
    /\ Len(threads) = 2

\* C3 (as claimed): a Message sent through a handle with a ctx never sits in
\* the channel without a frame that will drain it: a repaint request is
\* pending, or a frame is in progress that has not finished its drain loop.
C3_NoLostWakeup ==
    (alive /\ \E i \in 1..Len(queue) : queue[i].woke)
       => (repaint \/ pc \in { "once", "view", "collect", "drain" })

\* C4: a Message sent by a Command dispatched in frame K is reduced in a
\* frame after K: whatever the current frame drained or reduced comes from
\* Commands dispatched in earlier frames.
C4_NotBeforeNextFrame ==
    /\ \A i \in 1..Len(recvd) : recvd[i].born < frame
    /\ \A i \in 1..Len(reduced) :
         reduced[i].src = "cmd" => reduced[i].born < frame

\* Frame K+1 reduces a Message of a Command dispatched in frame K.
C4_Witness ==
    \E i \in 1..Len(reduced) :
        reduced[i].src = "cmd" /\ reduced[i].born = frame - 1

\* The same Messages fed one per frame: each frame's reduce loop runs on a
\* batch of one, starting from the Model the frame before left.
RECURSIVE OnePerFrame(_, _)
OnePerFrame(m, batch) ==
    IF batch = << >> THEN [ model |-> m, cmds |-> << >> ]
    ELSE LET f == FrameReduce(m, << Head(batch) >>)
             rest == OnePerFrame(f.model, Tail(batch))
         IN [ model |-> rest.model, cmds |-> f.cmds \o rest.cmds ]

BareCmds(q) == [ i \in 1..Len(q) |-> [ kind |-> q[i].kind, arg |-> q[i].arg ] ]

\* C5: the Model and the Commands a frame's loop has produced after any
\* number of its Messages are those of the sequential fold of the reducer
\* over these Messages, and the same as feeding them one per frame; and the
\* Model changes nowhere but in a reduction, so the frame that follows
\* starts from the Model this one left.
C5_FoldIndependentOfFrames ==
    /\ [](pc = "reduce" =>
            /\ model = FrameReduce(start_model, reduced).model
            /\ BareCmds(cmds) = FrameReduce(start_model, reduced).cmds
            /\ OnePerFrame(start_model, reduced)
                 = FrameReduce(start_model, reduced))
    /\ [][model' # model =>
            \/ pc = "reduce" /\ pc' = "update"
            \/ pc = "update" /\ pc' = "reduce"
            \/ ~alive /\ alive']_vars

\* A loop that has reduced three Messages, one of which emitted a Command,
\* and changed the Model.
C5_Witness ==
    /\ pc = "reduce"
    /\ Len(reduced) >= 3
    /\ cmds # << >>
    /\ model # start_model
    /\ model # DefaultModel

\* C6: every Command the reducer returned is handed to run_cmd once, in the
\* frame that emitted it and in emission order, with a clone of the
\* instance's handle: the threads spawned are the Commands 1, 2, ... in
\* order, the Commands still waiting are the next ones of this frame, and
\* none is left when the frame ends.
C6_DispatchedOnceInOrder ==
    /\ \A i \in 1..Len(threads) :
         /\ threads[i].cid = i
         /\ threads[i].born = threads[i].emitted
         /\ threads[i].wake = chai_tx.ctx
    /\ \A j \in 1..Len(cmds) :
         /\ cmds[j].cid = Len(threads) + j
         /\ cmds[j].emitted = frame
    /\ pc \in { "idle", "once", "view", "collect" } =>
         (cmds = << >> /\ Len(threads) = nemit)
    /\ pc = "dispatch" => Len(threads) + Len(cmds) = nemit

\* Two Commands emitted and dispatched in one frame.
C6_Witness ==
    /\ pc = "idle"
    /\ Len(threads) = 2
    /\ threads[1].born = threads[2].born

\* C7 (as claimed): once an instance's first frame is past the run-once
\* step, its handle has the ctx, and so has every clone given to run_cmd.
C7_WakeInstalledInFirstFrame ==
    (alive /\ frame >= 1 /\ pc # "once") =>
        /\ chai_tx.ctx
        /\ \A i \in 1..Len(threads) : threads[i].wake

\* C8: set_ctx is called on an instance's handle at most once; the frame
\* that finds the latch open installs the ctx, and the run-once step of
\* every later frame changes nothing of the handle.
C8_SetCtxAtMostOnce ==
    /\ [](nsetctx <= 1)
    /\ [][(pc = "once" /\ pc' = "view" /\ ~ONCE) =>
            (chai_tx'.ctx /\ nsetctx' = 1)]_vars
    /\ [][(pc = "once" /\ pc' = "view" /\ frame > 1) =>
            (chai_tx' = chai_tx /\ nsetctx' = nsetctx)]_vars

\* A later frame has passed the run-once step of an instance that
\* installed the ctx in its first frame.
C8_Witness ==
    /\ frame >= 2
    /\ pc = "view"
    /\ nsetctx = 1
    /\ chai_tx.ctx

Sending(th) == th.pc \in { "enq_tick", "enq_stop" }

\* C9: once the receiver is gone nothing is queued; a send on any clone is
\* not blocked, returns the error (the thread returns at once, as timer.rs
\* does on is_err) and leaves the channel, the batch and the Model alone.
C9_SendAfterTeardown ==
    /\ [](~alive => queue = << >>)
    /\ [](\A i \in 1..Len(threads) :
            (Sending(threads[i]) /\ ~Connected(threads[i])) =>
               ENABLED (ThreadEnqTick(i) \/ ThreadEnqStop(i)))
    /\ [][\A i \in 1..Len(threads) :
            (/\ Sending(threads[i])
             /\ ~Connected(threads[i])
             /\ i <= Len(threads')
             /\ threads'[i] # threads[i]) =>
               /\ threads'[i].last = "closed"
               /\ threads'[i].pc = "returned"
               /\ UNCHANGED << queue, nsent, msgs, reduced, model >>]_vars

\* A thread whose send after the shutdown returned the error.
C9_Witness ==
    /\ ~alive
    /\ \E i \in 1..Len(threads) :
         /\ threads[i].last = "closed"
         /\ threads[i].pc = "returned"
         /\ threads[i].tick >= 2

\* C10: inside update the render thread always has a next step, whatever
\* the threads of the dispatched Commands are doing, and every call of
\* update comes to its end.
C10_FrameNeverWaits ==
    /\ [](InFrame => ENABLED FrameStep)
    /\ InFrame ~> ~InFrame

\* A frame drains an empty channel while a dispatched Command's thread has
\* yet to send anything.
C10_Witness ==
    /\ pc = "reduce"
    /\ recvd = << >>
    /\ \E i \in 1..Len(threads) : threads[i].last = "none"

\* A value of type Model (timer.rs): a record of the Model's four fields.
IsModel(x) == DOMAIN x = DOMAIN DefaultModel

\* C11 (as claimed): at every point of a frame exactly one valid Model
\* exists for the instance: while the reducer holds the Model moved out of
\* the Frame Driver (the local old), the Frame Driver's slot holds no Model,
\* and outside a reduction the slot holds the only one.
C11_ExactlyOneModel ==
    alive =>
        /\ IsModel(model) \/ IsModel(old)
        /\ IsModel(old) => ~IsModel(model)

\* C12: run_cmd is called by the render thread only, inside the dispatch
\* loop, one Command at a time in emission order, each call returning
\* before the next begins; the Synchronized State changes nowhere but in
\* such a call, and no step of a thread a Command spawned touches it.
C12_SyncStateExclusive ==
    /\ [][Len(threads') > Len(threads) =>
            /\ pc = "dispatch" /\ pc' = "dispatch"
            /\ Len(threads') = Len(threads) + 1
            /\ threads'[Len(threads')].cid = Head(cmds).cid
            /\ cmds' = Tail(cmds)]_vars
    /\ [][sync_state' # sync_state =>
            \/ pc = "dispatch" /\ cmds # << >>
            \/ ~alive /\ alive']_vars
    /\ [][(\E i \in 1..Len(threads) :
              i <= Len(threads') /\ threads'[i] # threads[i]) =>
            sync_state' = sync_state]_vars

\* The thread of an earlier Command is in the middle of a send while the
\* dispatch loop has the next Command's run_cmd still to call.
C12_Witness ==
    /\ pc = "dispatch"
    /\ cmds # << >>
    /\ \E i \in 1..Len(threads) : threads[i].pc = "enq_tick"

\* The Messages the channel accepted that the Frame Driver has not yet
\* left behind with a finished frame: those of the current batch (reduced
\* or waiting), then those still queued.
Pipeline == MailPart(reduced \o msgs) \o queue

FromThread(c) == SelectSeq(Pipeline, LAMBDA m : m.cid = c)

KindArg(q) == [ i \in 1..Len(q) |-> << q[i].kind, q[i].arg >> ]

\* What a thread's sends have put into the channel so far, by its position
\* in run_cmd's loop.
SentBy(th) ==
    [ k \in 1..(IF th.pc = "enq_tick" THEN th.tick - 1 ELSE th.tick)
        |-> << "Tick", k >> ]
      \o (IF th.pc = "done" THEN << << "Stop", 0 >> >> ELSE << >>)

IsSuffix(p, q) ==
    Len(p) <= Len(q) /\ SubSeq(q, Len(q) - Len(p) + 1, Len(q)) = p

\* C13: the Messages of one Start(n) thread travel in send order: what the
\* Frame Driver holds or has yet to drain of them is always the tail end of
\* Tick(1), ..., Tick(k) (then Stop), the earlier ones having gone with
\* earlier frames, whatever view Messages and Messages of other threads lie
\* between; Stop is sent only after Tick(n) was accepted; and a thread
\* whose send failed has returned and does nothing more.
C13_TicksThenStop ==
    /\ [](\A i \in 1..Len(threads) :
            Connected(threads[i]) =>
               /\ IsSuffix(KindArg(FromThread(threads[i].cid)),
                           SentBy(threads[i]))
               /\ threads[i].pc \in { "stop", "enq_stop", "done" } =>
                    threads[i].tick = threads[i].total)
    /\ [][\A i \in 1..Len(threads) :
            (i <= Len(threads') /\ threads[i].pc = "returned") =>
               threads'[i] = threads[i]]_vars

\* The Stop of a Start(1) thread is reduced, behind a view Message, in a
\* later frame than the frame that reduced its Tick(1).
C13_Witness ==
    /\ pc = "dispatch"
    /\ pushed # << >>
    /\ \E j \in 1..Len(reduced) :
         reduced[j].src = "cmd" /\ reduced[j].kind = "Stop"
    /\ \A k \in 1..Len(reduced) : reduced[k].kind # "Tick"

\* The place of the last Set in a stream, 0 when there is none; likewise
\* of the last NewLabel.
LastOf(q, kind) ==
    IF \E i \in 1..Len(q) : q[i].kind = kind
    THEN CHOOSE i \in 1..Len(q) :
           q[i].kind = kind /\ \A j \in (i + 1)..Len(q) : q[j].kind # kind
    ELSE 0

CountAfter(q, k, kind) ==
    Cardinality({ i \in (k + 1)..Len(q) : q[i].kind = kind })

Kinds(q) == [ i \in 1..Len(q) |-> q[i].kind ]

\* C14: whenever the counter application's Model is in its slot, its
\* counter is the counter the stream started from (0, or the value of the
\* last Set) plus the Increments minus the Decrements reduced since,
\* however the stream was split over frames, and the label is the last
\* NewLabel's; the stream Increment, Increment, Decrement ends with
\* counter 1 and nothing else changed.
C14_CounterSum ==
    app.pc \in { "idle", "view", "collect", "reduce" } =>
        LET k == LastOf(app.stream, "Set")
            l == LastOf(app.stream, "NewLabel")
        IN /\ app.model.counter =
                (IF k = 0 THEN MainInit.counter ELSE app.stream[k].x)
                  + CountAfter(app.stream, k, "Increment")
                  - CountAfter(app.stream, k, "Decrement")
           /\ app.model.label =
                (IF l = 0 THEN MainInit.label ELSE app.stream[l].string)
           /\ Kinds(app.stream) = << "Increment", "Increment", "Decrement" >>
                => app.model = [ counter |-> 1, label |-> "" ]

\* Increment, Increment, Decrement fed over two frames.
C14_Witness ==
    /\ app.pc = "idle"
    /\ app.frame = 2
    /\ Kinds(app.stream) = << "Increment", "Increment", "Decrement" >>
    /\ app.model.counter = 1

\* C15: a send on a handle of a live instance leaves a repaint request
\* pending exactly if one was pending or the handle carries a ctx;
\* send_repaintless leaves the request flag as it was; and either call,
\* with or without a ctx, returns Ok and puts its Message at the end of
\* the channel as long as the receiver exists.
C15_WakeIffCtx ==
    [][\A i \in 1..Len(threads) :
         /\ (SenderSend(i) /\ alive) =>
               repaint' = (repaint \/ threads[i].wake)
         /\ SenderSendRepaintless(i) => repaint' = repaint
         /\ ((SenderSend(i) \/ SenderSendRepaintless(i)) /\ alive) =>
               /\ threads'[i].last = "ok"
               /\ Len(queue') = Len(queue) + 1
               /\ SubSeq(queue', 1, Len(queue)) = queue
               /\ queue'[Len(queue')].cid = i]_vars

\* A Message sent through a clone taken before the ctx was installed is
\* queued with no request pending, on an instance whose handle has the ctx.
C15_Witness ==
    /\ alive
    /\ ~repaint
    /\ chai_tx.ctx
    /\ Len(queue) = 1
    /\ ~queue[1].woke
    /\ threads[queue[1].cid].last = "ok"
    /\ \E i \in 1..Len(threads) : threads[i].wake

\* The order of the steps of update.
FrameOrder ==
    { << "idle", "once" >>, << "once", "view" >>, << "view", "collect" >>,
      << "collect", "drain" >>, << "drain", "reduce" >>,
      << "reduce", "update" >>, << "update", "reduce" >>,
      << "reduce", "dispatch" >>, << "dispatch", "idle" >> }

\* C16: update moves through render, collect (the sink, then the channel),
\* reduce and dispatch in this order and never back; when the dispatch
\* loop runs, every Message of the frame has been reduced and the slot
\* holds the frame's final Model; run_cmd is called nowhere else, and while
\* the reduce loop runs no Command of this frame has been dispatched.
C16_DispatchAfterReduce ==
    /\ [][pc' # pc => << pc, pc' >> \in FrameOrder]_vars
    /\ [](pc = "dispatch" =>
            /\ msgs = << >>
            /\ old = Moved
            /\ reduced = pushed \o recvd
            /\ model = FrameReduce(start_model, pushed \o recvd).model)
    /\ [][Len(threads') > Len(threads) =>
            /\ pc = "dispatch"
            /\ model' = model
            /\ threads'[Len(threads')].emitted = frame]_vars
    /\ [](pc \in { "reduce", "update" } =>
            \A i \in 1..Len(threads) : threads[i].emitted < frame)

\* The Command the frame's first Message emitted has been dispatched, after
\* a later Message of the frame was reduced.
C16_Witness ==
    /\ pc = "dispatch"
    /\ Len(reduced) >= 2
    /\ reduced[1].kind = "Start"
    /\ reduced[Len(reduced)].kind # "Start"
    /\ \E i \in 1..Len(threads) : threads[i].emitted = frame

\* C17: in either Frame Driver the sink is empty when the view is called,
\* so that after the call it holds what this call pushed and nothing else;
\* it is emptied into the batch before anything is reduced; from then on
\* the view Messages reduced and those waiting in the batch are together
\* the Messages pushed, each once and in order; and the frame ends with
\* all of them reduced and none left in the sink or the batch.
C17_SinkEmptyEachFrame ==
    /\ [](/\ messages # << >> => (pc = "collect" /\ messages = pushed)
          /\ pc \in { "drain", "reduce", "update", "dispatch" } =>
               ViewPart(reduced \o msgs) = pushed
          /\ pc = "dispatch" => ViewPart(reduced) = pushed
          /\ pc \in { "idle", "once", "view" } => msgs = << >>)
    /\ [][(pc = "view" /\ pc' = "collect") =>
            (messages = << >> /\ messages' = pushed')]_vars
    /\ [](app # NoApp =>
            /\ app.messages # << >> =>
                 (app.pc = "collect" /\ app.messages = app.pushed)
            /\ app.pc \in { "reduce", "update" } =>
                 app.reduced \o app.msgs = app.pushed
            /\ app.pc \in { "idle", "view" } => app.msgs = << >>)
    /\ [][(app # NoApp /\ app.pc = "view" /\ app'.pc = "collect") =>
            (app.messages = << >> /\ app'.messages = app'.pushed)]_vars
    /\ [][(app # NoApp /\ app.pc = "reduce" /\ app'.pc = "idle") =>
            (app.reduced = app.pushed /\ app.messages = << >>)]_vars

\* The non-async Frame Driver has reduced both Messages its view pushed in
\* the second frame.
C17_Witness ==
    /\ app # NoApp
    /\ app.frame = 2
    /\ app.pc = "reduce"
    /\ Len(app.pushed) = 2
    /\ app.reduced = app.pushed
    /\ app.msgs = << >>

\* C18: a panic of the reducer on a Message of the batch leaves update at
\* once and for good: update is entered from the reduce loop only and
\* never resumed, the Messages behind the faulting one are never reduced,
\* no Command emitted in that frame, before the fault or not, has reached
\* run_cmd or ever will, and the Synchronized State is not written.
C18_FaultStopsFrame ==
    /\ [](pc = "panicked" =>
            /\ IsPrefix(reduced, pushed \o recvd)
            /\ Len(reduced) < Len(pushed \o recvd)
            /\ msgs = << >> /\ cmds = << >>
            /\ \A i \in 1..Len(threads) : threads[i].emitted < frame)
    /\ [][pc' # pc =>
            \/ << pc, pc' >> \in FrameOrder
            \/ pc = "update" /\ pc' = "panicked"]_vars
    /\ [][(pc = "panicked" \/ pc' = "panicked") =>
            /\ reduced' = reduced
            /\ model' = model
            /\ sync_state' = sync_state
            /\ Len(threads') = Len(threads)]_vars

\* The reducer panicked on the second Message of a frame whose first
\* Message had emitted a Command, with a third Message waiting behind.
C18_Witness ==
    /\ pc = "panicked"
    /\ Len(reduced) = 1
    /\ reduced[1].kind = "Start"
    /\ Len(pushed \o recvd) = 3
    /\ nemit > Len(threads)

\* C19: a frame whose view pushed nothing and whose drain found the channel
\* empty calls neither the reducer nor run_cmd and ends with the Model it
\* began with: in either Frame Driver the Model changes only in a reduce
\* step of a frame that has a Message, and threads are spawned only in
\* such a frame; and the Synchronized State is written only inside a
\* run_cmd call of the dispatch loop.
C19_EmptyFrameNoEffect ==
    /\ [](/\ pc = "update" => pushed \o recvd # << >>
          /\ (pc = "dispatch" /\ pushed \o recvd = << >>) =>
               (reduced = << >> /\ cmds = << >> /\ model = start_model))
    /\ [][model' # model =>
            \/ /\ << pc, pc' >> \in { << "reduce", "update" >>,
                                      << "update", "reduce" >> }
               /\ pushed \o recvd # << >>
            \/ ~alive /\ alive']_vars
    /\ [][Len(threads') > Len(threads) => pushed \o recvd # << >>]_vars
    /\ [][sync_state' # sync_state =>
            \/ pc = "dispatch" /\ cmds # << >> /\ pc' = "dispatch"
            \/ ~alive /\ alive']_vars
    /\ [](app # NoApp => (app.pc = "update" => app.pushed # << >>))
    /\ [][(app # NoApp /\ app'.model # app.model) =>
            /\ << app.pc, app'.pc >> \in { << "reduce", "update" >>,
                                          << "update", "reduce" >> }
            /\ app.pushed # << >>]_vars

\* A later frame with no Message at all reaches its end while the Model is
\* not the initial one and a thread is still sending.
C19_Witness ==
    /\ pc = "dispatch"
    /\ frame >= 2
    /\ pushed \o recvd = << >>
    /\ model # InitModel
    /\ \E i \in 1..Len(threads) : threads[i].pc = "enq_tick"

\* C20: run side by side on the same view Messages, with a reducer that
\* emits no Command and a channel that receives nothing, the two Frame
\* Drivers hold the same Model whenever both have finished the same number
\* of frames, and within a frame whenever both have reduced the same
\* number of its Messages; the async driver then never dispatches.
C20_SameModelEachFrame ==
    /\ nemit = 0 /\ ndrained = 0 /\ threads = << >>
    /\ (pc = "idle" /\ app.pc = "idle" /\ frame = app.frame) =>
          model = app.model
    /\ (pc = "reduce" /\ app.pc = "reduce" /\ frame = app.frame
          /\ Len(reduced) = Len(app.reduced)) =>
          (model = app.model /\ reduced = app.reduced)
    /\ pc = "dispatch" => (cmds = << >> /\ reduced = pushed)

\* Both drivers have finished their third frame with a Model that two
\* different Messages changed.
C20_Witness ==
    /\ pc = "idle"
    /\ app.pc = "idle"
    /\ frame = 3
    /\ app.frame = 3
    /\ model = app.model
    /\ model.state = "Paused"
    /\ model.total_time = 1

====
